---- MODULE Spec2Model ----
(***************************************************************************)
(* DeepFilterNet3Processor (src/src/DeepFilterNet3Processor.ts): the       *)
(* process-wide asset cache held in the static fields preloadPromise and   *)
(* preloadConfig, and the per-instance lifecycle (create, initialize,      *)
(* createAudioWorkletNode, control operations, destroy).                   *)
(*                                                                         *)
(* Numbers handed to setSuppressionLevel and noiseReductionLevel are kept  *)
(* as records [t, v]: t = "num" with v the value in tenths (509 is 50.9),  *)
(* t = "inf" with v = 1 or -1 for +Infinity and -Infinity, t = "nan",      *)
(* t = "string" for an argument that is not of type number, and            *)
(* t = "undefined" for an absent property.                                 *)
(***************************************************************************)
EXTENDS Integers, Sequences, FiniteSets, TLC

VARIABLES
    preloadPromise,   \* static preloadPromise: 0 (null) or the id of an acquisition
    preloadConfig,    \* static preloadConfig, seen through ?.cdnUrl
    ops,              \* the acquisition operations (promises) ever started, by id
    fetchCalls,       \* number of loader.fetchAsset calls per <<location, asset>>
    reqs,             \* the latest preload()/create() request and the one before it
    inst,             \* the DeepFilterNet3Processor instances
    destroyed,        \* per instance: destroy() has been called on it
    nodeCalls,        \* createAudioWorkletNode calls that reached the await
    nodes,            \* the AudioWorkletNode objects ever constructed
    registerCalls,    \* number of createWorkletModule calls
    last              \* the last operation that ran on an instance: argument, outcome, pre-state

vars == <<preloadPromise, preloadConfig, ops, fetchCalls, reqs, inst, destroyed,
          nodeCalls, nodes, registerCalls, last>>

-----------------------------------------------------------------------------
(* Bounds of the model *)

MaxOps == 2
MaxInst == 2
MaxNodeCalls == 2
MaxMsgs == 2

-----------------------------------------------------------------------------
(* Values *)

Null == 0
Undefined == "undefined"
DefaultCdnUrl == "https://cdn.mezon.ai/AI/models/datas/noise_suppression/deepfilternet3"
OtherCdnUrl == "https://cdn.example/other"

\* the cdnUrl values a caller passes in assetConfig (absent, the default spelled out, another)
CdnUrls == {Undefined, DefaultCdnUrl, OtherCdnUrl}
Assets == {"wasm", "model"}

Num(tenths) == [t |-> "num", v |-> tenths]
NaN == [t |-> "nan", v |-> 0]
PosInf == [t |-> "inf", v |-> 1]
NegInf == [t |-> "inf", v |-> -1]
NotANumber == [t |-> "string", v |-> 0]
NoValue == [t |-> Undefined, v |-> 0]

\* arguments tried for setSuppressionLevel: -5, 50.9, 250 and the ones that are no finite number
LevelArgs == {Num(-50), Num(509), Num(2500), NaN, PosInf, NegInf, NotANumber}

\* noiseReductionLevel values tried in a configuration: absent, and 300 (out of range)
ConfigLevels == {NoValue, Num(3000)}

\* configurations tried on the cache: every cdnUrl, noiseReductionLevel absent
CacheConfigs == [cdnUrl : CdnUrls, noiseReductionLevel : {NoValue}]

\* configurations tried on the instance lifecycle: default location, every level
LifeConfigs == [cdnUrl : {Undefined}, noiseReductionLevel : ConfigLevels]

-----------------------------------------------------------------------------
(* Pure helpers *)

\* a ?? b on the cdnUrl strings
Coalesce(a, b) == IF a = Undefined THEN b ELSE a

\* config.noiseReductionLevel ?? 50
LevelOrDefault(l) == IF l.t = Undefined THEN Num(500) ELSE l

\* the effective base location of a request
EffectiveCdnUrl(cdnUrl) == Coalesce(cdnUrl, DefaultCdnUrl)

\* loader.getAssetUrls(): the two locations fetched for a configuration
AssetUrls(cdnUrl) == [a \in Assets |-> <<EffectiveCdnUrl(cdnUrl), a>>]

AllUrls == {<<u, a>> : u \in {DefaultCdnUrl, OtherCdnUrl}, a \in Assets}

\* typeof level !== 'number'
NotTypeofNumber(level) == level.t \in {"string", Undefined}

\* isNaN(level) for a value of type number
IsNaN(level) == level.t = "nan"

\* Math.floor
MathFloor(x) == IF x.t = "num" THEN Num((x.v \div 10) * 10) ELSE x

\* x < y on numbers and infinities
NumLess(x, y) ==
    IF x.t = "inf" THEN x.v = -1 /\ ~(y.t = "inf" /\ y.v = -1)
    ELSE IF y.t = "inf" THEN y.v = 1
    ELSE x.v < y.v

\* Math.min and Math.max
MathMin(x, y) == IF x.t = "nan" \/ y.t = "nan" THEN NaN ELSE IF NumLess(y, x) THEN y ELSE x
MathMax(x, y) == IF x.t = "nan" \/ y.t = "nan" THEN NaN ELSE IF NumLess(x, y) THEN y ELSE x

\* the clamp without Math.floor
ClampedLevelNoFloor(level) == MathMax(Num(0), MathMin(Num(1000), level))

\* Math.max(0, Math.min(100, Math.floor(level)))
ClampedLevel(level) == MathMax(Num(0), MathMin(Num(1000), MathFloor(level)))

RECURSIVE SumPorts(_, _)
SumPorts(s, k) == IF k = 0 THEN 0 ELSE Len(s[k].port) + SumPorts(s, k - 1)

RECURSIVE SumDisconnects(_, _)
SumDisconnects(s, k) == IF k = 0 THEN 0 ELSE s[k].disconnects + SumDisconnects(s, k - 1)

\* messages posted to all nodes, disconnect() calls on all nodes
TotalMsgs == SumPorts(nodes, Len(nodes))
TotalDisconnects == SumDisconnects(nodes, Len(nodes))

\* loader.fetchAsset calls made so far
TotalFetches(f) == f[<<DefaultCdnUrl, "wasm">>] + f[<<DefaultCdnUrl, "model">>]
                   + f[<<OtherCdnUrl, "wasm">>] + f[<<OtherCdnUrl, "model">>]

-----------------------------------------------------------------------------
(* State *)

NoInst == [pc |-> "unused", cdnUrl |-> Undefined, noiseReductionLevel |-> NoValue,
           assets |-> Null, workletNode |-> Null, isInitialized |-> FALSE,
           bypassEnabled |-> FALSE, awaiting |-> Null, error |-> ""]

NoArg == [level |-> NoValue, enabled |-> FALSE]

NoReq == [via |-> "none", cdnUrl |-> Undefined, op |-> Null, started |-> FALSE,
          fetched |-> 0, inst |-> 0]

Pre(i) == [I |-> IF i = 0 THEN NoInst ELSE inst[i],
           destroyed |-> IF i = 0 THEN FALSE ELSE destroyed[i],
           msgs |-> TotalMsgs, disconnects |-> TotalDisconnects,
           registerCalls |-> registerCalls, nodes |-> Len(nodes),
           nodeCalls |-> Len(nodeCalls)]

Ran(op, i, arg, outcome) ==
    last' = [op |-> op, inst |-> i, arg |-> arg, outcome |-> outcome, pre |-> Pre(i)]

Init ==
    /\ preloadPromise = Null
    /\ preloadConfig = Undefined
    /\ ops = <<>>
    /\ fetchCalls = [u \in AllUrls |-> 0]
    /\ reqs = [prev |-> NoReq, cur |-> NoReq]
    /\ inst = [i \in 1..MaxInst |-> NoInst]
    /\ destroyed = [i \in 1..MaxInst |-> FALSE]
    /\ nodeCalls = <<>>
    /\ nodes = <<>>
    /\ registerCalls = 0
    /\ last = [op |-> "none", inst |-> 0, arg |-> NoArg, outcome |-> "", pre |->
                 [I |-> NoInst, destroyed |-> FALSE, msgs |-> 0, disconnects |-> 0,
                  registerCalls |-> 0, nodes |-> 0, nodeCalls |-> 0]]

\* the caller holds a reference to instance i
Held(i) == inst[i].pc \in {"returned", "constructed"}

\* the first unused instance slot, 0 when none is left
FreeInst == IF \E i \in 1..MaxInst : inst[i].pc = "unused"
            THEN CHOOSE i \in 1..MaxInst :
                    inst[i].pc = "unused" /\ \A j \in 1..(i - 1) : inst[j].pc # "unused"
            ELSE 0

-----------------------------------------------------------------------------
(* static preload(config) *)

\* CacheHit comparing the cdnUrl properties themselves, without the default
CacheHitRawUrl(cdnUrl) == preloadPromise # Null /\ cdnUrl = preloadConfig

\* the test of line 43: a promise is stored and its location equals the requested one
CacheHit(cdnUrl) ==
    LET currentCdnUrl == Coalesce(cdnUrl, DefaultCdnUrl)
        cachedCdnUrl == Coalesce(preloadConfig, DefaultCdnUrl)
    IN preloadPromise # Null /\ currentCdnUrl = cachedCdnUrl

\* the promise preload(config) returns
PreloadReturn(cdnUrl) == IF CacheHit(cdnUrl) THEN preloadPromise ELSE Len(ops) + 1

\* the stored acquisition is still pending
StoredPending == preloadPromise # Null /\ ops[preloadPromise].state \in {"fetching", "compiling"}

\* preload(config) that aborts the pending acquisition it replaces: it rejects
preloadAbortsReplaced(cdnUrl) ==
    IF CacheHit(cdnUrl)
    THEN UNCHANGED <<preloadPromise, preloadConfig, ops, fetchCalls>>
    ELSE /\ preloadConfig' = cdnUrl
         /\ ops' = Append(IF StoredPending
                          THEN [ops EXCEPT ![preloadPromise].state = "rejected",
                                           ![preloadPromise].error = "aborted"]
                          ELSE ops,
                          [loc |-> EffectiveCdnUrl(cdnUrl), state |-> "fetching",
                           error |-> ""])
         /\ fetchCalls' = [u \in AllUrls |->
                              IF \E a \in Assets : AssetUrls(cdnUrl)[a] = u
                              THEN fetchCalls[u] + 1 ELSE fetchCalls[u]]
         /\ preloadPromise' = Len(ops) + 1

\* preload(config) that drops the pending acquisition it replaces: it never settles
preloadDropsReplaced(cdnUrl) ==
    IF CacheHit(cdnUrl)
    THEN UNCHANGED <<preloadPromise, preloadConfig, ops, fetchCalls>>
    ELSE /\ preloadConfig' = cdnUrl
         /\ ops' = Append(IF StoredPending
                          THEN [ops EXCEPT ![preloadPromise].state = "dropped"]
                          ELSE ops,
                          [loc |-> EffectiveCdnUrl(cdnUrl), state |-> "fetching",
                           error |-> ""])
         /\ fetchCalls' = [u \in AllUrls |->
                              IF \E a \in Assets : AssetUrls(cdnUrl)[a] = u
                              THEN fetchCalls[u] + 1 ELSE fetchCalls[u]]
         /\ preloadPromise' = Len(ops) + 1

\* the state change of preload(config), lines 36-58
preload(cdnUrl) ==
    IF CacheHit(cdnUrl)
    THEN UNCHANGED <<preloadPromise, preloadConfig, ops, fetchCalls>>
    ELSE /\ preloadConfig' = cdnUrl
         /\ ops' = Append(ops, [loc |-> EffectiveCdnUrl(cdnUrl), state |-> "fetching",
                                error |-> ""])
         /\ fetchCalls' = [u \in AllUrls |->
                              IF \E a \in Assets : AssetUrls(cdnUrl)[a] = u
                              THEN fetchCalls[u] + 1 ELSE fetchCalls[u]]
         /\ preloadPromise' = Len(ops) + 1

\* a request can be made: it joins the stored promise or an acquisition can still start
CanRequest(cdnUrl) == CacheHit(cdnUrl) \/ Len(ops) < MaxOps

Request(via, cdnUrl, i) ==
    reqs' = [prev |-> reqs.cur,
             cur |-> [via |-> via, cdnUrl |-> cdnUrl, op |-> PreloadReturn(cdnUrl),
                      started |-> Len(ops') > Len(ops),
                      fetched |-> TotalFetches(fetchCalls') - TotalFetches(fetchCalls),
                      inst |-> i]]

\* a caller calls DeepFilterNet3Processor.preload(config)
Preload(cfg) ==
    /\ CanRequest(cfg.cdnUrl)
    /\ preload(cfg.cdnUrl)
    /\ Request("preload", cfg.cdnUrl, 0)
    /\ UNCHANGED <<inst, destroyed, nodeCalls, nodes, registerCalls, last>>

-----------------------------------------------------------------------------
(* The acquisition: Promise.all of the two fetches, then WebAssembly.compile *)

\* one of the two loader.fetchAsset calls fails: Promise.all rejects with its error
FetchFail(k) ==
    /\ k \in DOMAIN ops
    /\ ops[k].state = "fetching"
    /\ ops' = [ops EXCEPT ![k] = [@ EXCEPT !.state = "rejected", !.error = "fetch"]]
    /\ UNCHANGED <<preloadPromise, preloadConfig, fetchCalls, reqs, inst, destroyed,
                   nodeCalls, nodes, registerCalls, last>>

\* both loader.fetchAsset calls succeed: WebAssembly.compile starts
FetchAllDone(k) ==
    /\ k \in DOMAIN ops
    /\ ops[k].state = "fetching"
    /\ ops' = [ops EXCEPT ![k] = [@ EXCEPT !.state = "compiling"]]
    /\ UNCHANGED <<preloadPromise, preloadConfig, fetchCalls, reqs, inst, destroyed,
                   nodeCalls, nodes, registerCalls, last>>

\* WebAssembly.compile settles
CompileDone(k, ok) ==
    /\ k \in DOMAIN ops
    /\ ops[k].state = "compiling"
    /\ ops' = [ops EXCEPT ![k] = IF ok THEN [@ EXCEPT !.state = "resolved"]
                                 ELSE [@ EXCEPT !.state = "rejected", !.error = "compile"]]
    /\ UNCHANGED <<preloadPromise, preloadConfig, fetchCalls, reqs, inst, destroyed,
                   nodeCalls, nodes, registerCalls, last>>

-----------------------------------------------------------------------------
(* constructor, create, initialize *)

\* the fields the constructor sets, lines 14-27
Constructed(cfg, pc) ==
    [NoInst EXCEPT !.pc = pc, !.cdnUrl = cfg.cdnUrl,
                   !.noiseReductionLevel = LevelOrDefault(cfg.noiseReductionLevel)]

\* new DeepFilterNet3Processor(config) called directly, without create()
Construct(cfg) ==
    /\ FreeInst # 0
    /\ inst' = [inst EXCEPT ![FreeInst] = Constructed(cfg, "constructed")]
    /\ UNCHANGED <<preloadPromise, preloadConfig, ops, fetchCalls, reqs, destroyed,
                   nodeCalls, nodes, registerCalls, last>>

\* create(config) up to the await in initialize(): constructor, then preload(this.config)
Create(cfg) ==
    /\ FreeInst # 0
    /\ CanRequest(cfg.cdnUrl)
    /\ preload(cfg.cdnUrl)
    /\ Request("create", cfg.cdnUrl, FreeInst)
    /\ inst' = [inst EXCEPT ![FreeInst] =
                  [Constructed(cfg, "initializing") EXCEPT !.awaiting = PreloadReturn(cfg.cdnUrl)]]
    /\ UNCHANGED <<destroyed, nodeCalls, nodes, registerCalls, last>>

\* initialize() setting isInitialized before the await has succeeded
initializeEarlyFlag(i) ==
    LET o == ops[inst[i].awaiting]
    IN IF o.state = "resolved"
       THEN [inst[i] EXCEPT !.assets = inst[i].awaiting, !.isInitialized = TRUE,
                            !.pc = "initialized"]
       ELSE [inst[i] EXCEPT !.pc = "initializeFailed", !.error = o.error,
                            !.isInitialized = TRUE]

\* initialize() after the await, lines 65-69: it sets the two fields, or throws
\* the error of the acquisition; create() is still suspended at line 31
initialize(i) ==
    LET o == ops[inst[i].awaiting]
    IN IF o.state = "resolved"
       THEN [inst[i] EXCEPT !.assets = inst[i].awaiting, !.isInitialized = TRUE,
                            !.pc = "initialized"]
       ELSE [inst[i] EXCEPT !.pc = "initializeFailed", !.error = o.error]

\* the continuation of initialize() runs once the awaited acquisition has settled
InitializeResume(i) ==
    /\ inst[i].pc = "initializing"
    /\ ops[inst[i].awaiting].state \in {"resolved", "rejected"}
    /\ inst' = [inst EXCEPT ![i] = initialize(i)]
    /\ UNCHANGED <<preloadPromise, preloadConfig, ops, fetchCalls, reqs, destroyed,
                   nodeCalls, nodes, registerCalls, last>>

\* create() has not settled yet: it is suspended at the await of line 31
CreatePending(i) == inst[i].pc \in {"initializing", "initialized", "initializeFailed"}

\* create() after its await, lines 31-32, a microtask after initialize() has
\* settled: it returns the instance, or rejects with the error of initialize()
CreateReturn(i) ==
    /\ inst[i].pc \in {"initialized", "initializeFailed"}
    /\ inst' = [inst EXCEPT ![i].pc = IF @ = "initialized" THEN "returned" ELSE "rejected"]
    /\ UNCHANGED <<preloadPromise, preloadConfig, ops, fetchCalls, reqs, destroyed,
                   nodeCalls, nodes, registerCalls, last>>

-----------------------------------------------------------------------------
(* createAudioWorkletNode *)

\* ensureInitialized() that never throws
ensureInitializedNoThrow(i) == TRUE

\* ensureInitialized() returns without throwing
ensureInitialized(i) == inst[i].isInitialized

\* createAudioWorkletNode up to the await of createWorkletModule, lines 73-79
CreateNodeBegin(i) ==
    /\ Held(i)
    /\ IF ~ensureInitialized(i)
       THEN /\ Ran("createAudioWorkletNode", i, NoArg, "NotInitialized")
            /\ UNCHANGED <<nodeCalls, registerCalls>>
       ELSE IF inst[i].assets = Null
       THEN /\ Ran("createAudioWorkletNode", i, NoArg, "AssetsNotLoaded")
            /\ UNCHANGED <<nodeCalls, registerCalls>>
       ELSE /\ Len(nodeCalls) < MaxNodeCalls
            /\ registerCalls' = registerCalls + 1
            /\ nodeCalls' = Append(nodeCalls, [inst |-> i, state |-> "registering",
                                               node |-> Null])
            /\ Ran("createAudioWorkletNode", i, NoArg, "pending")
    /\ UNCHANGED <<preloadPromise, preloadConfig, ops, fetchCalls, reqs, inst, destroyed,
                   nodes>>

\* the AudioWorkletNode constructed at lines 81-87
NewNode(i) ==
    [owner |-> i, wasmModule |-> inst[i].assets, modelBytes |-> inst[i].assets,
     suppressionLevel |-> inst[i].noiseReductionLevel, disconnects |-> 0, port |-> <<>>]

\* createAudioWorkletNode after the await reading the assets with this.assets?.wasmModule:
\* no TypeError when destroy() cleared them, the node is constructed and stored
CreateNodeResumeOptionalAssets(c, ok) ==
    /\ c \in DOMAIN nodeCalls
    /\ nodeCalls[c].state = "registering"
    /\ LET i == nodeCalls[c].inst
       IN IF ~ok
          THEN /\ nodeCalls' = [nodeCalls EXCEPT ![c].state = "RegisterFailed"]
               /\ Ran("createAudioWorkletNodeResume", i, NoArg, "RegisterFailed")
               /\ UNCHANGED <<inst, nodes>>
          ELSE /\ nodes' = Append(nodes, NewNode(i))
               /\ inst' = [inst EXCEPT ![i].workletNode = Len(nodes) + 1]
               /\ nodeCalls' = [nodeCalls EXCEPT ![c].state = "returned",
                                                 ![c].node = Len(nodes) + 1]
               /\ Ran("createAudioWorkletNodeResume", i, NoArg, "returned")
    /\ UNCHANGED <<preloadPromise, preloadConfig, ops, fetchCalls, reqs, destroyed,
                   registerCalls>>

\* createAudioWorkletNode after the await, lines 81-89; ok: createWorkletModule resolved
CreateNodeResume(c, ok) ==
    /\ c \in DOMAIN nodeCalls
    /\ nodeCalls[c].state = "registering"
    /\ LET i == nodeCalls[c].inst
       IN IF ~ok
          THEN /\ nodeCalls' = [nodeCalls EXCEPT ![c].state = "RegisterFailed"]
               /\ Ran("createAudioWorkletNodeResume", i, NoArg, "RegisterFailed")
               /\ UNCHANGED <<inst, nodes>>
          ELSE IF inst[i].assets = Null
          THEN \* this.assets.wasmModule on null
               /\ nodeCalls' = [nodeCalls EXCEPT ![c].state = "TypeError"]
               /\ Ran("createAudioWorkletNodeResume", i, NoArg, "TypeError")
               /\ UNCHANGED <<inst, nodes>>
          ELSE /\ nodes' = Append(nodes, NewNode(i))
               /\ inst' = [inst EXCEPT ![i].workletNode = Len(nodes) + 1]
               /\ nodeCalls' = [nodeCalls EXCEPT ![c].state = "returned",
                                                 ![c].node = Len(nodes) + 1]
               /\ Ran("createAudioWorkletNodeResume", i, NoArg, "returned")
    /\ UNCHANGED <<preloadPromise, preloadConfig, ops, fetchCalls, reqs, destroyed,
                   registerCalls>>

-----------------------------------------------------------------------------
(* Control operations and destroy *)

LevelMsg(value) == [type |-> "SET_SUPPRESSION_LEVEL", value |-> value, flag |-> FALSE]
BypassMsg(flag) == [type |-> "SET_BYPASS", value |-> NoValue, flag |-> flag]

\* workletNode.port.postMessage(msg) on node n
PostMessage(n, msg) == nodes' = [nodes EXCEPT ![n].port = Append(@, msg)]

\* the guard of line 93: the call returns without doing anything
LevelIgnored(i, level) ==
    inst[i].workletNode = Null \/ NotTypeofNumber(level) \/ IsNaN(level)

\* setSuppressionLevel(level)
SetSuppressionLevel(i, level) ==
    /\ Held(i)
    /\ IF LevelIgnored(i, level)
       THEN UNCHANGED nodes
       ELSE /\ TotalMsgs < MaxMsgs
            /\ PostMessage(inst[i].workletNode, LevelMsg(ClampedLevel(level)))
    /\ Ran("setSuppressionLevel", i, [NoArg EXCEPT !.level = level], "ok")
    /\ UNCHANGED <<preloadPromise, preloadConfig, ops, fetchCalls, reqs, inst, destroyed,
                   nodeCalls, registerCalls>>

\* the bypass flag recorded without the negation
BypassForNoNegation(enabled) == enabled

\* the bypass flag setNoiseSuppressionEnabled(enabled) records, line 121
BypassFor(enabled) == ~enabled

\* setNoiseSuppressionEnabled(enabled)
SetNoiseSuppressionEnabled(i, enabled) ==
    /\ Held(i)
    /\ IF inst[i].workletNode = Null
       THEN UNCHANGED <<inst, nodes>>
       ELSE /\ TotalMsgs < MaxMsgs
            /\ inst' = [inst EXCEPT ![i].bypassEnabled = BypassFor(enabled)]
            /\ PostMessage(inst[i].workletNode, BypassMsg(~enabled))
    /\ Ran("setNoiseSuppressionEnabled", i, [NoArg EXCEPT !.enabled = enabled], "ok")
    /\ UNCHANGED <<preloadPromise, preloadConfig, ops, fetchCalls, reqs, destroyed,
                   nodeCalls, registerCalls>>

\* isNoiseSuppressionEnabled()
isNoiseSuppressionEnabled(i) == ~inst[i].bypassEnabled

\* isReady() looking at the initialized flag alone
isReadyFlagOnly(i) == inst[i].isInitialized

\* isReady()
isReady(i) == inst[i].isInitialized /\ inst[i].workletNode # Null

\* destroy() that does not reset isInitialized
destroyKeepsInitialized(i) ==
    IF ~inst[i].isInitialized
    THEN UNCHANGED <<inst, nodes>>
    ELSE /\ nodes' = IF inst[i].workletNode # Null
                     THEN [nodes EXCEPT ![inst[i].workletNode].disconnects = @ + 1]
                     ELSE nodes
         /\ inst' = [inst EXCEPT ![i].workletNode = Null, ![i].assets = Null]

\* destroy() that disconnects the node but keeps the reference to it
destroyKeepsNode(i) ==
    IF ~inst[i].isInitialized
    THEN UNCHANGED <<inst, nodes>>
    ELSE /\ nodes' = IF inst[i].workletNode # Null
                     THEN [nodes EXCEPT ![inst[i].workletNode].disconnects = @ + 1]
                     ELSE nodes
         /\ inst' = [inst EXCEPT ![i].assets = Null, ![i].isInitialized = FALSE]

\* the state change of destroy(), lines 103-111
destroy(i) ==
    IF ~inst[i].isInitialized
    THEN UNCHANGED <<inst, nodes>>
    ELSE /\ nodes' = IF inst[i].workletNode # Null
                     THEN [nodes EXCEPT ![inst[i].workletNode].disconnects = @ + 1]
                     ELSE nodes
         /\ inst' = [inst EXCEPT ![i].workletNode = Null, ![i].assets = Null,
                                 ![i].isInitialized = FALSE]

\* destroy() that also clears the static cache
DestroyClearsCache(i) ==
    /\ Held(i)
    /\ destroy(i)
    /\ destroyed' = [destroyed EXCEPT ![i] = TRUE]
    /\ Ran("destroy", i, NoArg, "ok")
    /\ preloadPromise' = IF inst[i].isInitialized THEN Null ELSE preloadPromise
    /\ preloadConfig' = IF inst[i].isInitialized THEN Undefined ELSE preloadConfig
    /\ UNCHANGED <<ops, fetchCalls, reqs, nodeCalls, registerCalls>>

Destroy(i) ==
    /\ Held(i)
    /\ destroy(i)
    /\ destroyed' = [destroyed EXCEPT ![i] = TRUE]
    /\ Ran("destroy", i, NoArg, "ok")
    /\ UNCHANGED <<preloadPromise, preloadConfig, ops, fetchCalls, reqs, nodeCalls,
                   registerCalls>>

-----------------------------------------------------------------------------
(* Specifications *)

\* the pair of instances under study is made by create()
CreatePair(cfg) == inst[2].pc = "unused" /\ Create(cfg)

\* the cache: preload() with every location, create() with every location
\* for a pair of instances, and the acquisitions
NextCache ==
    \/ \E cfg \in CacheConfigs : Preload(cfg)
    \/ \E cfg \in CacheConfigs : CreatePair(cfg)
    \/ \E k \in 1..MaxOps : FetchFail(k)
    \/ \E k \in 1..MaxOps : FetchAllDone(k)
    \/ \E k \in 1..MaxOps, ok \in BOOLEAN : CompileDone(k, ok)
    \/ \E i \in 1..MaxInst : InitializeResume(i)
    \/ \E i \in 1..MaxInst : CreateReturn(i)

SpecCache == Init /\ [][NextCache]_vars

\* no instance has been constructed yet
NoInstanceYet == \A i \in 1..MaxInst : inst[i].pc = "unused"

\* the instance under study is made by create() or by the constructor
CreateFirst(cfg) == NoInstanceYet /\ Create(cfg)
ConstructFirst(cfg) == NoInstanceYet /\ Construct(cfg)

\* the lifecycle of one instance: create() and every operation of the instance
Next ==
    \/ \E cfg \in LifeConfigs : CreateFirst(cfg)
    \/ \E cfg \in LifeConfigs : ConstructFirst(cfg)
    \/ \E k \in 1..MaxOps : FetchFail(k)
    \/ \E k \in 1..MaxOps : FetchAllDone(k)
    \/ \E k \in 1..MaxOps, ok \in BOOLEAN : CompileDone(k, ok)
    \/ \E i \in 1..MaxInst : InitializeResume(i)
    \/ \E i \in 1..MaxInst : CreateReturn(i)
    \/ \E i \in 1..MaxInst : CreateNodeBegin(i)
    \/ \E c \in 1..MaxNodeCalls, ok \in BOOLEAN : CreateNodeResume(c, ok)
    \/ \E i \in 1..MaxInst, level \in LevelArgs : SetSuppressionLevel(i, level)
    \/ \E i \in 1..MaxInst, enabled \in BOOLEAN : SetNoiseSuppressionEnabled(i, enabled)
    \/ \E i \in 1..MaxInst : Destroy(i)

Spec == Init /\ [][Next]_vars

-----------------------------------------------------------------------------
(* Properties of the cache, checked under SpecCache *)

Insts == 1..MaxInst

\* the location a cdnUrl property stands for: the default when it is absent
LocationOf(u) == IF u = Undefined THEN DefaultCdnUrl ELSE u

\* C1: at most one fetch-and-compile operation is ever started per effective base
\* location: no two acquisitions have the same location, and a request for the
\* location of any acquisition started so far returns that acquisition (it is
\* still cached) rather than starting a new one.
C1_OneAcquisitionPerLocation ==
    /\ \A o1, o2 \in DOMAIN ops : ops[o1].loc = ops[o2].loc => o1 = o2
    /\ \A o \in DOMAIN ops : PreloadReturn(ops[o].loc) = o

\* C2: two requests made one after the other (preload or create) for the same
\* effective base location, an absent cdnUrl counting as the default, get the
\* same acquisition; the second one fetches nothing, the acquisition they share
\* was started with one fetch per asset, and two instances created by them hold
\* the same assets object.
C2_SameLocationSharesAcquisition ==
    LET p == reqs.prev
        c == reqs.cur
    IN (p.via # "none" /\ LocationOf(p.cdnUrl) = LocationOf(c.cdnUrl)) =>
          /\ c.op = p.op
          /\ c.fetched = 0
          /\ p.started => p.fetched = 2
          /\ TotalFetches(fetchCalls) = 2 * Len(ops)
          /\ \A a \in Assets : fetchCalls[<<LocationOf(c.cdnUrl), a>>] >= 1
          /\ (p.inst # 0 /\ c.inst # 0 /\ inst[p.inst].pc = "returned"
                /\ inst[c.inst].pc = "returned") =>
                 (inst[p.inst].assets = inst[c.inst].assets /\ inst[c.inst].assets = c.op)

\* C2 witness: preload() without cdnUrl started an acquisition that is still
\* fetching, and create() with the default location spelled out joined it.
C2_Witness ==
    /\ reqs.prev.via = "preload" /\ reqs.prev.cdnUrl = Undefined /\ reqs.prev.started
    /\ reqs.cur.via = "create" /\ reqs.cur.cdnUrl = DefaultCdnUrl
    /\ ops[reqs.cur.op].state = "fetching"
    /\ inst[reqs.cur.inst].pc = "initializing"

\* C3: create() returns an instance only after its acquisition resolved, and the
\* instance is then initialized and holds the assets of that acquisition; when
\* the acquisition is rejected create() rejects with its error and the instance,
\* which no caller receives, has initialized = false, assets = null, no node.
C3_CreateOutcome ==
    \A i \in Insts :
        /\ inst[i].pc = "returned" =>
              /\ ops[inst[i].awaiting].state = "resolved"
              /\ inst[i].isInitialized
              /\ inst[i].assets = inst[i].awaiting
        /\ inst[i].pc = "rejected" =>
              /\ ops[inst[i].awaiting].state = "rejected"
              /\ inst[i].error = ops[inst[i].awaiting].error
              /\ ~inst[i].isInitialized
              /\ inst[i].assets = Null
              /\ inst[i].workletNode = Null
        /\ inst[i].pc = "initializing" => ~inst[i].isInitialized /\ inst[i].assets = Null
        /\ inst[i].pc = "initialized" =>
              /\ ops[inst[i].awaiting].state = "resolved"
              /\ inst[i].isInitialized
              /\ inst[i].assets = inst[i].awaiting
        /\ inst[i].pc = "initializeFailed" =>
              /\ ops[inst[i].awaiting].state = "rejected"
              /\ ~inst[i].isInitialized
              /\ inst[i].assets = Null

\* C3 witness: one create() returned its instance and another was rejected by a
\* failed compile.
C3_Witness ==
    \E i, j \in Insts :
        /\ inst[i].pc = "returned"
        /\ inst[j].pc = "rejected" /\ inst[j].error = "compile"

\* C4 as stated: isReady() is true on every instance create() has returned.
C4_ReadyAfterCreate ==
    \A i \in Insts : inst[i].pc = "returned" => isReady(i)

\* C4 amended: an instance create() has returned, and on which nothing was
\* called since, is initialized and holds its assets, and isReady() is false on
\* it because it has no AudioWorkletNode yet.
C4_InitializedNotReadyAfterCreate ==
    \A i \in Insts :
        (inst[i].pc = "returned" /\ ~destroyed[i] /\ last.inst # i) =>
            /\ inst[i].isInitialized
            /\ inst[i].assets # Null
            /\ ~isReady(i)

\* C4 witness: create() has returned an instance.
C4_Witness ==
    \E i \in Insts : inst[i].pc = "returned" /\ ops[inst[i].awaiting].state = "resolved"

\* C5: once an acquisition for a location has failed, a later preload()/create()
\* for that location gets that failed acquisition, without a new fetch.
C5_FailureStaysForLocation ==
    \A o \in DOMAIN ops :
        ops[o].state = "rejected" => PreloadReturn(ops[o].loc) = o

-----------------------------------------------------------------------------
(* Properties of one instance, checked under Spec *)

\* the instance the last operation ran on, before and after
LastInst == inst[last.inst]
LastPre == last.pre.I

\* the message posted last to the node the instance held before the operation
LastPosted == LET n == nodes[LastPre.workletNode] IN n.port[Len(n.port)]

\* C6: createAudioWorkletNode on an instance with initialized = false fails with
\* the 'not initialized' error, constructs no node, does not call
\* createWorkletModule and leaves the instance as it was.
C6_NotInitializedRejected ==
    (last.op = "createAudioWorkletNode" /\ ~LastPre.isInitialized) =>
        /\ last.outcome = "NotInitialized"
        /\ LastInst = LastPre
        /\ Len(nodes) = last.pre.nodes
        /\ Len(nodeCalls) = last.pre.nodeCalls
        /\ registerCalls = last.pre.registerCalls

\* C6 witness: createAudioWorkletNode was called on an instance after destroy().
C6_Witness ==
    /\ last.op = "createAudioWorkletNode"
    /\ last.pre.destroyed
    /\ last.outcome = "NotInitialized"
    /\ LastPre.pc = "returned"

\* C7: destroy() on an initialized instance disconnects its node, clears assets
\* and workletNode and resets initialized; on an instance that is not
\* initialized (a second destroy(), or a never-initialized instance) it changes
\* nothing and disconnects nothing; no node is disconnected twice.
C7_DestroyIdempotent ==
    /\ \A n \in DOMAIN nodes : nodes[n].disconnects <= 1
    /\ last.op = "destroy" =>
          IF LastPre.isInitialized
          THEN /\ LastInst = [LastPre EXCEPT !.workletNode = Null, !.assets = Null,
                                             !.isInitialized = FALSE]
               /\ LastPre.workletNode # Null =>
                     /\ nodes[LastPre.workletNode].disconnects = 1
                     /\ TotalDisconnects = last.pre.disconnects + 1
               /\ LastPre.workletNode = Null => TotalDisconnects = last.pre.disconnects
          ELSE /\ LastInst = LastPre
               /\ TotalDisconnects = last.pre.disconnects

\* C7 witness: a second destroy() ran on an instance whose node the first
\* destroy() had disconnected.
C7_Witness ==
    /\ last.op = "destroy"
    /\ last.pre.destroyed
    /\ \E n \in DOMAIN nodes : nodes[n].owner = last.inst /\ nodes[n].disconnects = 1

\* C8: after destroy() a control operation posts no message, changes nothing of
\* the instance and does not throw.
C8_ControlAfterDestroyNoOp ==
    (last.op \in {"setSuppressionLevel", "setNoiseSuppressionEnabled"} /\ last.pre.destroyed) =>
        /\ last.outcome = "ok"
        /\ LastInst = LastPre
        /\ TotalMsgs = last.pre.msgs
        /\ Len(nodes) = last.pre.nodes

\* C8 witness: setSuppressionLevel(50.9) ran on an instance that had a node
\* before destroy().
C8_Witness ==
    /\ last.op = "setSuppressionLevel"
    /\ last.arg.level = Num(509)
    /\ last.pre.destroyed
    /\ \E n \in DOMAIN nodes : nodes[n].owner = last.inst /\ nodes[n].disconnects = 1

\* floor(level) clamped into 0..100 for a finite level given in tenths
FloorClamp(tenths) ==
    LET f == tenths \div 10
    IN IF f < 0 THEN 0 ELSE IF f > 100 THEN 100 ELSE f

\* the last operation posted exactly one message and changed nothing else
PostedOne(msg) ==
    /\ TotalMsgs = last.pre.msgs + 1
    /\ Len(nodes) = last.pre.nodes
    /\ LastPosted = msg

PostedNone == TotalMsgs = last.pre.msgs /\ Len(nodes) = last.pre.nodes

\* C9 as stated: setSuppressionLevel posts nothing when there is no node or the
\* level is not a finite number, and otherwise posts one SET_SUPPRESSION_LEVEL
\* message with floor(level) clamped into 0..100.
C9_FiniteLevelsOnly ==
    last.op = "setSuppressionLevel" =>
        /\ last.outcome = "ok"
        /\ LastInst = LastPre
        /\ IF LastPre.workletNode = Null \/ last.arg.level.t # "num"
           THEN PostedNone
           ELSE PostedOne(LevelMsg(Num(10 * FloorClamp(last.arg.level.v))))

\* C9 amended: setSuppressionLevel posts nothing when there is no node or the
\* level is NaN or not of type number; otherwise it posts exactly one
\* SET_SUPPRESSION_LEVEL message with floor(level) clamped into 0..100, which is
\* 100 for +Infinity and 0 for -Infinity.
C9_LevelClamped ==
    last.op = "setSuppressionLevel" =>
        /\ last.outcome = "ok"
        /\ LastInst = LastPre
        /\ IF LastPre.workletNode = Null \/ last.arg.level.t \in {"nan", "string"}
           THEN PostedNone
           ELSE IF last.arg.level.t = "inf"
           THEN PostedOne(LevelMsg(Num(IF last.arg.level.v = 1 THEN 1000 ELSE 0)))
           ELSE PostedOne(LevelMsg(Num(10 * FloorClamp(last.arg.level.v))))

\* C9 witness: setSuppressionLevel(50.9) on an instance with a node posted 50.
C9_Witness ==
    /\ last.op = "setSuppressionLevel"
    /\ last.arg.level = Num(509)
    /\ LastPre.workletNode # Null
    /\ LastPosted = LevelMsg(Num(500))

\* C10 as stated: isNoiseSuppressionEnabled() returns the value passed to the
\* most recent setNoiseSuppressionEnabled call (looked at on the instances that
\* create() returned).
C10_EnabledIsLastSet ==
    (last.op = "setNoiseSuppressionEnabled" /\ LastPre.pc = "returned") =>
        isNoiseSuppressionEnabled(last.inst) = last.arg.enabled

\* C10 amended: after setNoiseSuppressionEnabled(enabled) on an instance that
\* holds a node, isNoiseSuppressionEnabled() returns enabled; on an instance
\* without a node the call changes nothing and isNoiseSuppressionEnabled()
\* returns what it returned before.
C10_EnabledIsLastSetWithNode ==
    last.op = "setNoiseSuppressionEnabled" =>
        IF LastPre.workletNode # Null
        THEN isNoiseSuppressionEnabled(last.inst) = last.arg.enabled
        ELSE /\ isNoiseSuppressionEnabled(last.inst) = ~LastPre.bypassEnabled
             /\ LastInst = LastPre

\* C10 witness: suppression was disabled and then enabled again on an instance
\* with a node.
C10_Witness ==
    /\ last.op = "setNoiseSuppressionEnabled"
    /\ LastPre.workletNode # Null
    /\ LastPre.bypassEnabled
    /\ last.arg.enabled
    /\ isNoiseSuppressionEnabled(last.inst)

\* a createAudioWorkletNode call on instance i has returned its node
NodeCallCompleted(i) ==
    \E c \in DOMAIN nodeCalls : nodeCalls[c].inst = i /\ nodeCalls[c].state = "returned"

\* create() returned instance i after its acquisition resolved
AcquisitionSucceeded(i) ==
    /\ inst[i].pc = "returned"
    /\ ops[inst[i].awaiting].state = "resolved"

\* C13: isReady() is true exactly when the acquisition of the instance
\* succeeded, a createAudioWorkletNode call on it has completed and destroy()
\* has not been called on it.
C13_ReadyIffHandleCreated ==
    \A i \in Insts :
        isReady(i) <=> (AcquisitionSucceeded(i) /\ NodeCallCompleted(i) /\ ~destroyed[i])

\* C13 witness: the assets of an instance are loaded, createAudioWorkletNode is
\* still registering the module, there is no node yet and isReady() is false.
C13_Witness ==
    \E i \in Insts :
        /\ AcquisitionSucceeded(i) /\ inst[i].assets # Null
        /\ inst[i].workletNode = Null
        /\ \E c \in DOMAIN nodeCalls : nodeCalls[c].inst = i /\ nodeCalls[c].state = "registering"
        /\ ~isReady(i)

\* C14: an initialized instance holds its assets, and no createAudioWorkletNode
\* call fails with 'Assets not loaded'.
C14_InitializedHasAssets ==
    /\ \A i \in Insts : inst[i].isInitialized => inst[i].assets # Null
    /\ last.outcome # "AssetsNotLoaded"

\* C14 witness: createAudioWorkletNode passed both checks on an instance that
\* had been through create, a control operation and a node before.
C14_Witness ==
    /\ last.op = "createAudioWorkletNode"
    /\ last.outcome = "pending"
    /\ LastPre.workletNode # Null
    /\ last.pre.msgs > 0

\* C16: an instance has at most one node that it created and that is not
\* disconnected, and after destroy() every node the instance created has been
\* disconnected.
C16_EveryHandleDisconnected ==
    /\ \A i \in Insts :
          Cardinality({n \in DOMAIN nodes :
                          nodes[n].owner = i /\ nodes[n].disconnects = 0}) <= 1
    /\ last.op = "destroy" =>
          \A n \in DOMAIN nodes : nodes[n].owner = last.inst => nodes[n].disconnects >= 1

\* C17: an instance that holds a node is initialized and holds assets, and a
\* createAudioWorkletNode call that resumes after destroy() stores no node on
\* the instance.
C17_HandleImpliesInitialized ==
    /\ \A i \in Insts :
          inst[i].workletNode # Null => (inst[i].isInitialized /\ inst[i].assets # Null)
    /\ (last.op = "createAudioWorkletNodeResume" /\ last.pre.destroyed) =>
          /\ LastInst = LastPre
          /\ LastInst.workletNode = Null
          /\ Len(nodes) = last.pre.nodes

\* C17 witness: a createAudioWorkletNode call whose module registration
\* succeeded resumed on an instance that destroy() had reset in the meantime.
C17_Witness ==
    /\ last.op = "createAudioWorkletNodeResume"
    /\ last.pre.destroyed
    /\ last.outcome # "RegisterFailed"
    /\ LastInst.workletNode = Null

\* C18: a createAudioWorkletNode call ends by returning a node, with the 'not
\* initialized' error, with the 'assets not loaded' error or with the failure
\* of the module registration, and in no other way.
C18_DefinedOutcomesOnly ==
    /\ \A c \in DOMAIN nodeCalls :
          nodeCalls[c].state \in {"registering", "returned", "RegisterFailed"}
    /\ last.op = "createAudioWorkletNode" =>
          last.outcome \in {"pending", "NotInitialized", "AssetsNotLoaded"}
    /\ last.op = "createAudioWorkletNodeResume" =>
          last.outcome \in {"returned", "RegisterFailed"}

\* x is an integer in 0..100
IsIntensity(x) == x.t = "num" /\ x.v % 10 = 0 /\ x.v >= 0 /\ x.v <= 1000

\* C19: the suppressionLevel every node is constructed with, and the value of
\* every SET_SUPPRESSION_LEVEL message, is an integer in 0..100.
C19_IntensityInRange ==
    \A n \in DOMAIN nodes :
        /\ IsIntensity(nodes[n].suppressionLevel)
        /\ \A k \in DOMAIN nodes[n].port :
              nodes[n].port[k].type = "SET_SUPPRESSION_LEVEL" =>
                  IsIntensity(nodes[n].port[k].value)

\* the flag of the last SET_BYPASS message among the first k of a port, FALSE when none
RECURSIVE LastBypassFlag(_, _)
LastBypassFlag(port, k) ==
    IF k = 0 THEN FALSE
    ELSE IF port[k].type = "SET_BYPASS" THEN port[k].flag
    ELSE LastBypassFlag(port, k - 1)

\* C20: the bypass flag of an instance that holds a node equals the flag of the
\* last SET_BYPASS message posted to that node, or false when none was posted.
C20_BypassMatchesHandle ==
    \A i \in Insts :
        inst[i].workletNode # Null =>
            LET port == nodes[inst[i].workletNode].port
            IN inst[i].bypassEnabled = LastBypassFlag(port, Len(port))

-----------------------------------------------------------------------------
(* Independence and progress of the acquisitions, checked under SpecCache and SpecAcquireFair *)

Settled(o) == o.state \in {"resolved", "rejected"}

\* every create() is bound to the acquisition of its own location and gets the
\* outcome and the assets of that acquisition
OwnAcquisition ==
    \A i \in Insts :
        (CreatePending(i) \/ inst[i].pc \in {"returned", "rejected"}) =>
            /\ inst[i].awaiting \in DOMAIN ops
            /\ ops[inst[i].awaiting].loc = LocationOf(inst[i].cdnUrl)
            /\ inst[i].pc = "initialized" =>
                  (ops[inst[i].awaiting].state = "resolved" /\ inst[i].assets = inst[i].awaiting)
            /\ inst[i].pc = "initializeFailed" =>
                  (ops[inst[i].awaiting].state = "rejected"
                     /\ inst[i].error = ops[inst[i].awaiting].error)
            /\ inst[i].pc = "returned" =>
                  (ops[inst[i].awaiting].state = "resolved" /\ inst[i].assets = inst[i].awaiting)
            /\ inst[i].pc = "rejected" =>
                  (ops[inst[i].awaiting].state = "rejected"
                     /\ inst[i].error = ops[inst[i].awaiting].error)

\* a step changes at most one acquisition, never a settled one, and starting an
\* acquisition changes none of those already started
AcquisitionsUndisturbed ==
    \A o \in DOMAIN ops :
        /\ o \in DOMAIN ops'
        /\ ops'[o].loc = ops[o].loc
        /\ Settled(ops[o]) => ops'[o] = ops[o]
        /\ Len(ops') > Len(ops) => ops'[o] = ops[o]
        /\ ops'[o] # ops[o] => \A o2 \in DOMAIN ops : o2 # o => ops'[o2] = ops[o2]

\* C11: acquisitions for different locations are independent: starting one
\* leaves the acquisitions in flight as they are, the outcome of one never
\* changes another, and a create() awaiting an acquisition gets the outcome and
\* the assets of that acquisition, also after the cache holds another one.
C11_IndependentAcquisitions == []OwnAcquisition /\ [][AcquisitionsUndisturbed]_vars

\* C11 witness: create() for the default location returned the assets of the
\* first acquisition although the cache holds a second acquisition, for the
\* other location, which failed.
C11_Witness ==
    \E i \in Insts :
        /\ inst[i].pc = "returned" /\ inst[i].assets = 1
        /\ preloadPromise = 2
        /\ ops[1].loc # ops[2].loc
        /\ ops[2].state = "rejected"

\* every fetch and every compile eventually settles, and a continuation that can
\* run eventually runs
Fairness ==
    /\ WF_vars(\E k \in 1..MaxOps : FetchFail(k) \/ FetchAllDone(k))
    /\ WF_vars(\E k \in 1..MaxOps, ok \in BOOLEAN : CompileDone(k, ok))
    /\ WF_vars(\E i \in 1..MaxInst : InitializeResume(i))
    /\ WF_vars(\E i \in 1..MaxInst : CreateReturn(i))

\* configurations tried for progress: the default location and another one
ProgressConfigs == [cdnUrl : {Undefined, OtherCdnUrl}, noiseReductionLevel : {NoValue}]

\* preload() and create() for two locations, and the acquisitions
NextAcquire ==
    \/ \E cfg \in ProgressConfigs : Preload(cfg)
    \/ \E cfg \in ProgressConfigs : Create(cfg)
    \/ \E k \in 1..MaxOps : FetchFail(k)
    \/ \E k \in 1..MaxOps : FetchAllDone(k)
    \/ \E k \in 1..MaxOps, ok \in BOOLEAN : CompileDone(k, ok)
    \/ \E i \in 1..MaxInst : InitializeResume(i)
    \/ \E i \in 1..MaxInst : CreateReturn(i)

SpecAcquireFair == Init /\ [][NextAcquire]_vars /\ Fairness

\* C15: every acquisition started by preload() or create() eventually resolves
\* or rejects, and every create() eventually returns its instance or rejects,
\* whether or not its acquisition is still the one the cache holds: no
\* acquisition and no create() stays pending forever.
C15_EveryRequestSettles ==
    /\ \A k \in 1..MaxOps : []<>(k \in DOMAIN ops => Settled(ops[k]))
    /\ \A i \in 1..MaxInst : []<>(~CreatePending(i))

\* C15 witness: a create() has settled on an acquisition that a request for
\* another location had replaced in the cache while it was pending.
C15_Witness ==
    \E i \in Insts :
        /\ inst[i].pc \in {"returned", "rejected"}
        /\ inst[i].awaiting = 1
        /\ preloadPromise = 2
        /\ reqs.cur.started /\ reqs.cur.op = 2 /\ reqs.prev.op = 1 /\ reqs.prev.inst = i

-----------------------------------------------------------------------------
(* Instances sharing the cache, checked under SpecShared *)

\* the configuration of the instances that share one acquisition
SharedConfigs == [cdnUrl : {Undefined}, noiseReductionLevel : {NoValue}]

\* preload() is called once an instance has been destroyed
PreloadAfterDestroy(cfg) == (\E i \in Insts : destroyed[i]) /\ Preload(cfg)

\* two instances of one location: create(), the worklet node,
\* setNoiseSuppressionEnabled(false), which sets the bypass flag, destroy(),
\* and preload() after a destroy()
NextShared ==
    \/ \E cfg \in SharedConfigs : PreloadAfterDestroy(cfg)
    \/ \E cfg \in SharedConfigs : CreatePair(cfg)
    \/ \E k \in 1..MaxOps : FetchFail(k)
    \/ \E k \in 1..MaxOps : FetchAllDone(k)
    \/ \E k \in 1..MaxOps, ok \in BOOLEAN : CompileDone(k, ok)
    \/ \E i \in 1..MaxInst : InitializeResume(i)
    \/ \E i \in 1..MaxInst : CreateReturn(i)
    \/ \E i \in 1..MaxInst : CreateNodeBegin(i)
    \/ \E c \in 1..MaxNodeCalls, ok \in BOOLEAN : CreateNodeResume(c, ok)
    \/ \E i \in 1..MaxInst : SetNoiseSuppressionEnabled(i, FALSE)
    \/ \E i \in 1..MaxInst : Destroy(i)

SpecShared == Init /\ [][NextShared]_vars

\* the step is a destroy() call
DestroyStep == last' # last /\ last'.op = "destroy"

\* the step leaves instance j and the node it holds as they are
InstanceUntouched(j) ==
    /\ inst'[j] = inst[j]
    /\ inst[j].workletNode # Null => nodes'[inst[j].workletNode] = nodes[inst[j].workletNode]

\* the step leaves the cache as it is: the stored promise, its key, the
\* acquisitions, and what preload() would return for every location
CacheUntouched ==
    /\ UNCHANGED <<preloadPromise, preloadConfig, ops, fetchCalls>>
    /\ \A u \in CdnUrls \cup {Undefined} :
          /\ CacheHit(u)' = CacheHit(u)
          /\ CacheHit(u) => PreloadReturn(u)' = PreloadReturn(u)

\* the step is a preload() or create() for the location of a destroyed
\* instance whose acquisition the cache holds
RequestAfterDestroy ==
    /\ reqs' # reqs
    /\ \E i \in Insts :
          /\ destroyed[i]
          /\ inst[i].awaiting = preloadPromise
          /\ LocationOf(reqs'.cur.cdnUrl) = LocationOf(inst[i].cdnUrl)

\* C12: destroy() on one instance leaves the cache (the stored promise and
\* its key) and every other instance (assets, worklet node, initialized flag,
\* bypass flag) unchanged, and a preload() or create() for the same location
\* after the destroy returns the cached acquisition without a new fetch.
C12_DestroyLeavesCacheAndOthers ==
    [][ /\ DestroyStep =>
              /\ CacheUntouched
              /\ \A j \in 1..MaxInst : j # last'.inst => InstanceUntouched(j)
        /\ RequestAfterDestroy =>
              /\ ~reqs'.cur.started
              /\ reqs'.cur.fetched = 0
              /\ reqs'.cur.op = preloadPromise
              /\ UNCHANGED <<preloadPromise, preloadConfig, ops, fetchCalls>> ]_vars

\* C12 witness: an initialized instance was destroyed while another instance
\* holds the shared assets, a worklet node and a set bypass flag, the cache
\* still holds the acquisition, and preload() is answered from it without a fetch.
C12_Witness ==
    \E i, j \in Insts :
        /\ i # j
        /\ destroyed[i] /\ ~inst[i].isInitialized /\ inst[i].awaiting = preloadPromise
        /\ inst[j].isInitialized /\ inst[j].assets = preloadPromise
        /\ inst[j].workletNode # Null /\ inst[j].bypassEnabled
        /\ nodes[inst[j].workletNode].disconnects = 0
        /\ last.op = "destroy" /\ last.inst = i /\ last.pre.I.isInitialized
        /\ ops[preloadPromise].state = "resolved"
        /\ reqs.cur.via = "preload" /\ ~reqs.cur.started /\ reqs.cur.fetched = 0
        /\ reqs.cur.op = preloadPromise
        /\ reqs.prev.via = "create"

====
